---------------------------- MODULE Spec2Model ----------------------------
(***************************************************************************)
(* Model of ssi/api_client.py: the ApiClient request/response layer.       *)
(*                                                                         *)
(* Representation.  A Python value is a tagged record [t |-> type, ...].   *)
(* A Python str is a "text", a sequence of one-character strings, so that  *)
(* strip, lower, replace, f-string formatting and json decoding are        *)
(* computed character by character.  A dict is a function from keys to     *)
(* values; dict keys and the values of response headers, which the code    *)
(* only compares, are TLA+ strings (the keys of ws parameters, which ws    *)
(* quotes character by character, are texts).  An operation's result is an *)
(* outcome record: kind "return" with a value, or kind "raise" with an     *)
(* exception.                                                              *)
(* The lines that print when trace is set write to standard output only   *)
(* and are left out; the requests and websocket libraries are the          *)
(* environment: the model records the arguments they are called with and   *)
(* draws what they answer.  Handlers given to async_call return normally.  *)
(***************************************************************************)
EXTENDS Integers, Sequences, FiniteSets, TLC

VARIABLES
    config,     \* the ApiClient's attributes: url, token, project, trace
    last,       \* the finished synchronous operation: arguments, request, outcome
    fs,         \* the local file system: file name -> content, or Absent
    workers     \* the threads started by async_call, by thread number

vars == <<config, last, fs, workers>>

-----------------------------------------------------------------------------
(* Python values *)

None == [t |-> "none"]
Str(s) == [t |-> "str", v |-> s]
PyInt(n) == [t |-> "int", v |-> n]
Dict(d) == [t |-> "dict", v |-> d]
List == [t |-> "list"]

EmptyDict == Dict(<<>>)

\* Python truth value: None, "", 0, {} and [] are false.
Truthy(x) ==
    CASE x.t = "none" -> FALSE
      [] x.t = "str"  -> x.v # <<>>
      [] x.t = "int"  -> x.v # 0
      [] x.t = "dict" -> DOMAIN x.v # {}
      [] OTHER        -> FALSE

\* dict.update(other): the keys of other win.
DictUpdate(d, other) ==
    [k \in (DOMAIN d) \cup (DOMAIN other) |->
        IF k \in DOMAIN other THEN other[k] ELSE d[k]]

Returns(v) == [kind |-> "return", value |-> v]
Raises(e) == [kind |-> "raise", exc |-> e]

\* Exceptions.  ApiException carries the response's status and the message.
ApiException(r, msg) ==
    [type |-> "ApiException", status_code |-> r.status_code, msg |-> msg]
Error(type) == [type |-> type]

-----------------------------------------------------------------------------
(* Texts *)

Whitespace == {" ", "\n", "\t"}

RECURSIVE LStrip(_)
LStrip(s) ==
    IF s # <<>> /\ Head(s) \in Whitespace THEN LStrip(Tail(s)) ELSE s

RECURSIVE RStrip(_)
RStrip(s) ==
    IF s # <<>> /\ s[Len(s)] \in Whitespace
    THEN RStrip(SubSeq(s, 1, Len(s) - 1))
    ELSE s

\* str.strip()
Strip(s) == RStrip(LStrip(s))

UpperChars == <<"A", "B", "C", "D", "E", "F", "G", "H", "I", "J", "K", "L", "M",
                "N", "O", "P", "Q", "R", "S", "T", "U", "V", "W", "X", "Y", "Z">>
LowerChars == <<"a", "b", "c", "d", "e", "f", "g", "h", "i", "j", "k", "l", "m",
                "n", "o", "p", "q", "r", "s", "t", "u", "v", "w", "x", "y", "z">>

LowerChar(c) ==
    IF \E i \in DOMAIN UpperChars : UpperChars[i] = c
    THEN LowerChars[CHOOSE i \in DOMAIN UpperChars : UpperChars[i] = c]
    ELSE c

\* A lower() that leaves the text as it is.
Lower_kept(s) == s

\* str.lower()
Lower(s) == [i \in DOMAIN s |-> LowerChar(s[i])]

\* Whether s has prefix p at position i.
HasAt(s, p, i) ==
    /\ i + Len(p) - 1 <= Len(s)
    /\ SubSeq(s, i, i + Len(p) - 1) = p

\* str.replace(old, new), old not empty: left to right, not overlapping.
RECURSIVE Replace(_, _, _)
Replace(s, old, new) ==
    IF s = <<>> THEN <<>>
    ELSE IF HasAt(s, old, 1)
         THEN new \o Replace(SubSeq(s, Len(old) + 1, Len(s)), old, new)
         ELSE <<Head(s)>> \o Replace(Tail(s), old, new)

\* The texts the code names.
TxtNotFound == <<"N", "o", "t", " ", "F", "o", "u", "n", "d">>
TxtInternalServerError ==
    <<"I", "n", "t", "e", "r", "n", "a", "l", " ",
      "S", "e", "r", "v", "e", "r", " ", "E", "r", "r", "o", "r">>
TxtCallQuote == <<"C", "a", "l", "l", " ", "\"">>
TxtWasNotFound ==
    <<"\"", " ", "w", "a", "s", " ", "n", "o", "t", " ",
      "f", "o", "u", "n", "d", ".">>
TxtFailedWithServerError ==
    <<"\"", " ", "f", "a", "i", "l", "e", "d", " ", "w", "i", "t", "h", " ",
      "s", "e", "r", "v", "e", "r", " ", "e", "r", "r", "o", "r", ".">>

-----------------------------------------------------------------------------
(* HTTP responses, as the requests library presents them *)

JsonType == "application/json"

\* r.headers.get('Content-Type', None) == 'application/json'
IsJson(r) ==
    /\ "Content-Type" \in DOMAIN r.headers
    /\ r.headers["Content-Type"] = JsonType

\* r.json(): json decoding of the body, on the JSON texts the model's
\* responses use: a string literal without escapes, an object (kept opaque),
\* null; leading and trailing JSON whitespace is skipped; any other body is
\* not JSON and the decoder raises.
JsonLoads(text) ==
    LET s == Strip(text)
        n == Len(s)
    IN  IF /\ n >= 2
           /\ s[1] = "\"" /\ s[n] = "\""
           /\ \A i \in 2..(n - 1) : s[i] \notin {"\"", "\\"}
        THEN Returns(Str(SubSeq(s, 2, n - 1)))
        ELSE IF n >= 2 /\ s[1] = "{" /\ s[n] = "}"
        THEN Returns([t |-> "dict", raw |-> s])
        ELSE IF s = <<"n", "u", "l", "l">>
        THEN Returns(None)
        ELSE Raises(Error("JSONDecodeError"))

-----------------------------------------------------------------------------
(* ApiClient.check_status_error *)

check_status_error(r, call) ==
    IF r.status_code # 200
    THEN LET body == IF IsJson(r) THEN JsonLoads(r.text) ELSE Returns(Str(r.text))
         IN  IF body.kind = "raise" THEN body
             ELSE IF body.value.t # "str" THEN Raises(Error("AttributeError"))
             ELSE LET msg == Strip(body.value.v)
                  IN  IF r.status_code = 404
                      THEN Raises(ApiException(r,
                               IF msg = TxtNotFound
                               THEN TxtCallQuote \o call \o TxtWasNotFound
                               ELSE msg))
                      ELSE IF r.status_code >= 500
                      THEN Raises(ApiException(r,
                               IF msg = TxtInternalServerError
                               THEN TxtCallQuote \o call \o TxtFailedWithServerError
                               ELSE msg))
                      ELSE Raises(ApiException(r, msg))
    ELSE Returns(None)

-----------------------------------------------------------------------------
(* ApiClient.__init__ and ApiClient._get_request_headers *)

TxtUrlArg == <<"h", "t", "t", "p", ":", "/", "/", "h">>
TxtUrlEnv == <<"h", "t", "t", "p", "s", ":", "/", "/", "e">>
TxtTokenArg == <<"t">>
TxtTokenEnv == <<"e">>
TxtProjectArg == <<"p">>
TxtProjectEnv == <<"q">>

\* The process environment at construction: os.getenv gives None when unset.
EmptyEnv ==
    [SSI_API_URL |-> None, SSI_API_TOKEN |-> None,
     SSI_API_PROJECT |-> None, SSI_API_TRACE |-> None]
FullEnv ==
    [SSI_API_URL |-> Str(TxtUrlEnv), SSI_API_TOKEN |-> Str(TxtTokenEnv),
     SSI_API_PROJECT |-> Str(TxtProjectEnv), SSI_API_TRACE |-> Str(<<"1">>)]

Envs == {EmptyEnv, FullEnv}

\* The constructor's arguments (token, url, project).
InitArgs ==
    { [token |-> None, url |-> None, project |-> None],
      [token |-> Str(<<>>), url |-> Str(TxtUrlArg), project |-> None],
      [token |-> Str(TxtTokenArg), url |-> Str(TxtUrlArg), project |-> None] }

ApiClientInit(a, env) ==
    LET url == IF Truthy(a.url) THEN a.url ELSE env.SSI_API_URL
        token == IF Truthy(a.token) THEN a.token ELSE env.SSI_API_TOKEN
        project == IF Truthy(a.project) THEN a.project ELSE env.SSI_API_PROJECT
    IN  IF ~Truthy(url) THEN Raises(Error("Exception"))
        ELSE Returns([url |-> url, token |-> token, project |-> project,
                      trace |-> env.SSI_API_TRACE])

_get_request_headers(cfg) ==
    LET project == IF Truthy(cfg.project)
                   THEN [k \in {"X-Paf-Project"} |-> cfg.project]
                   ELSE <<>>
        token == IF Truthy(cfg.token)
                 THEN [k \in {"X-Paf-Token"} |-> cfg.token]
                 ELSE <<>>
    IN  DictUpdate(DictUpdate(<<>>, project), token)

-----------------------------------------------------------------------------
(* ApiClient.call *)

TxtPost == <<"p", "o", "s", "t">>
TxtGet == <<"g", "e", "t">>
TxtPut == <<"p", "u", "t">>
TxtDelete == <<"d", "e", "l", "e", "t", "e">>
TxtPatch == <<"p", "a", "t", "c", "h">>
TxtHead == <<"h", "e", "a", "d">>
TxtApi == <<"/", "a", "p", "i", "/">>

\* The functions of the requests library call() chooses among.
RequestMethods ==
    { <<TxtPost, "requests.post">>, <<TxtGet, "requests.get">>,
      <<TxtPut, "requests.put">>, <<TxtDelete, "requests.delete">>,
      <<TxtPatch, "requests.patch">>, <<TxtHead, "requests.head">> }

NoRequest == <<>>

\* What the server and the network do with a request: a response, or a
\* transport failure that the requests library raises.
TransportFailure == [kind |-> "failure"]
Answered(answer) == answer.kind = "response"

\* The part of call() after the request was made (lines 218-229).
call_decode(r, a) ==
    IF a.raw_response THEN Returns(r)
    ELSE LET status == check_status_error(r, a.call.v)
         IN  IF status.kind = "raise" THEN status
             ELSE IF IsJson(r) THEN JsonLoads(r.text)
             ELSE Returns(Str(r.text))

\* The keyword arguments of a call() that hands over a JSON body only for
\* parameters that are not empty.
call_kwargs_nonempty(cfg, a) ==
    LET kw1 == DictUpdate(a.kwargs,
                   [url |-> cfg.url.v \o TxtApi \o a.call.v,
                    headers |-> _get_request_headers(cfg)])
        files == IF "files" \in DOMAIN kw1 THEN kw1["files"] ELSE None
        kw2 == IF Truthy(files) THEN DictUpdate(kw1, [data |-> a.params])
               ELSE IF Truthy(a.params) THEN DictUpdate(kw1, [json |-> a.params])
               ELSE kw1
    IN  IF Truthy(a.get_params)
        THEN DictUpdate(kw2, [params |-> a.get_params])
        ELSE kw2

\* The keyword arguments call() hands to the request function (lines 193-212).
call_kwargs(cfg, a) ==
    LET params == IF Truthy(a.params) THEN a.params ELSE EmptyDict
        kw1 == DictUpdate(a.kwargs,
                   [url |-> cfg.url.v \o TxtApi \o a.call.v,
                    headers |-> _get_request_headers(cfg)])
        files == IF "files" \in DOMAIN kw1 THEN kw1["files"] ELSE None
        kw2 == IF ~Truthy(files)
               THEN DictUpdate(kw1, [json |-> params])
               ELSE DictUpdate(kw1, [data |-> params])
    IN  IF Truthy(a.get_params)
        THEN DictUpdate(kw2, [params |-> a.get_params])
        ELSE kw2

\* call(call, params, get_params, method, raw_response, headers, **kwargs) with
\* the answer its request gets.  The result names the requests sent, the
\* caller's headers dict as the call leaves it, and the outcome.
call(cfg, a, answer) ==
    LET method0 == IF ~Truthy(a.method) THEN Str(TxtPost) ELSE a.method
        headers0 == IF ~Truthy(a.headers) THEN EmptyDict ELSE a.headers
        stopped(e) == [sent |-> NoRequest, headers |-> a.headers, outcome |-> Raises(e)]
    IN  IF method0.t # "str" THEN stopped(Error("AttributeError"))
        ELSE
        LET method == Lower(method0.v)
        IN  IF \A m \in RequestMethods : m[1] # method
            THEN stopped([type |-> "Exception", msg |-> method])
            ELSE IF a.params.t \notin {"none", "dict"} THEN stopped(Error("TypeError"))
            ELSE IF a.call.t # "str" THEN stopped(Error("TypeError"))
            ELSE
            LET request_method == (CHOOSE m \in RequestMethods : m[1] = method)[2]
                headers == Dict(DictUpdate(headers0.v, _get_request_headers(cfg)))
                kwargs == call_kwargs(cfg, a)
                sent == <<[function |-> request_method, kwargs |-> kwargs]>>
            IN  [sent |-> sent,
                 headers |-> IF Truthy(a.headers) THEN headers ELSE a.headers,
                 outcome |-> IF Answered(answer)
                             THEN call_decode(answer, a)
                             ELSE Raises(Error("ConnectionError"))]

-----------------------------------------------------------------------------
(* ApiClient.file *)

ChunkSize == 4096

\* r.iter_content(chunk_size): the body in pieces of at most chunk_size bytes.
RECURSIVE iter_content(_, _)
iter_content(body, chunk_size) ==
    IF body = <<>> THEN <<>>
    ELSE IF Len(body) <= chunk_size THEN <<body>>
    ELSE <<SubSeq(body, 1, chunk_size)>>
         \o iter_content(SubSeq(body, chunk_size + 1, Len(body)), chunk_size)

\* The file after open(name, 'wb') and one f.write per chunk.
RECURSIVE write_chunks(_, _)
write_chunks(content, chunks) ==
    IF chunks = <<>> THEN content
    ELSE write_chunks(content \o Head(chunks), Tail(chunks))

Absent == [exists |-> FALSE]
Present(bytes) == [exists |-> TRUE, bytes |-> bytes]

\* file(path, params, out_filename, print_progress, timeout) with the answer
\* its request gets, on the file system files.  The result names the requests
\* sent, the file system after the call and the outcome.
file(cfg, a, answer, files) ==
    LET stopped(e) == [sent |-> NoRequest, fs |-> files, outcome |-> Raises(e)]
    IN  IF a.params.t \notin {"none", "dict"} THEN stopped(Error("TypeError"))
        ELSE IF a.path.t # "str" THEN stopped(Error("TypeError"))
        ELSE
        LET params0 == IF a.params.t = "none" THEN <<>> ELSE a.params.v
            params == IF cfg.token # None
                      THEN DictUpdate(params0, [token |-> cfg.token])
                      ELSE params0
            sent == <<[function |-> "requests.get",
                       kwargs |-> [url |-> cfg.url.v \o TxtApi \o a.path.v,
                                   params |-> Dict(params),
                                   headers |-> _get_request_headers(cfg),
                                   timeout |-> a.timeout,
                                   stream |-> TRUE]]>>
            failed(e) == [sent |-> sent, fs |-> files, outcome |-> Raises(e)]
        IN  IF ~Answered(answer) THEN failed(Error("ConnectionError"))
            ELSE
            LET status == check_status_error(answer, a.path.v)
            IN  IF status.kind = "raise" THEN failed(status.exc)
                ELSE IF a.out_filename = None THEN failed(Error("ValueError"))
                ELSE [sent |-> sent,
                      fs |-> [files EXCEPT ![a.out_filename.v] =
                                 Present(write_chunks(<<>>,
                                     iter_content(answer.text, ChunkSize)))],
                      outcome |-> Returns(None)]

-----------------------------------------------------------------------------
(* ApiClient.ws *)

\* requests.utils.requote_uri on the characters the model's texts use: a
\* space is quoted, the other characters are kept.
RECURSIVE requote_uri(_)
requote_uri(s) ==
    IF s = <<>> THEN <<>>
    ELSE (IF Head(s) = " " THEN <<"%", "2", "0">> ELSE <<Head(s)>>)
         \o requote_uri(Tail(s))

\* The loop over params.items() (lines 134-137).  A dict yields its items in
\* insertion order; the dicts ws is given here have at most one item.
RECURSIVE ws_items(_, _)
ws_items(d, keys) ==
    IF keys = {} THEN <<>>
    ELSE LET key == CHOOSE k \in keys : TRUE
         IN  requote_uri(key) \o <<"=">> \o requote_uri(d[key]) \o <<"&">>
             \o ws_items(d, keys \ {key})

ws_querystring(params) ==
    IF Truthy(params) THEN <<"?">> \o ws_items(params.v, DOMAIN params.v) ELSE <<>>

TxtHttps == <<"h", "t", "t", "p", "s", ":", "/", "/">>
TxtWss == <<"w", "s", "s", ":", "/", "/">>
TxtHttp == <<"h", "t", "t", "p", ":", "/", "/">>
TxtWs == <<"w", "s", ":", "/", "/">>
TxtWsPath == <<"/", "w", "s", "/">>

\* ws(path, params, timeout, headers, **kwargs) with what the connection
\* attempt meets.
ws(cfg, a, answer) ==
    LET stopped(e) == [sent |-> NoRequest, outcome |-> Raises(e)]
        params == IF a.params = None THEN EmptyDict ELSE a.params
    IN  IF a.path.t # "str" THEN stopped(Error("TypeError"))
        ELSE IF params.t # "dict" THEN stopped(Error("TypeError"))
        ELSE
        LET headers == _get_request_headers(cfg)
            url == Replace(Replace(cfg.url.v, TxtHttps, TxtWss), TxtHttp, TxtWs)
            full_url == url \o TxtWsPath \o a.path.v \o ws_querystring(params)
            sent == <<[function |-> "websocket.create_connection",
                       kwargs |-> DictUpdate(a.kwargs,
                                      [url |-> full_url, timeout |-> a.timeout,
                                       header |-> headers])]>>
        IN  [sent |-> sent,
             outcome |-> IF Answered(answer)
                         THEN Returns([t |-> "JsonWebSocket", url |-> full_url])
                         ELSE Raises(Error("WebSocketException"))]

-----------------------------------------------------------------------------
(* ApiClient._async_call_helper, run by the thread async_call starts *)

Unbound == [t |-> "unbound"]

\* The thread object right after thread.start() (lines 259-269).
async_call(a) ==
    [pc |-> "call", args |-> a, sent |-> NoRequest, answer |-> None,
     exc |-> None, ret |-> Unbound, delivered |-> <<>>, ended |-> None]

\* Line 242: ret = self.call(call, params, files, timeout), the four
\* arguments passed by position.
helper_call(cfg, w, answer) ==
    LET res == call(cfg,
                    [call |-> w.args.call, params |-> w.args.params,
                     get_params |-> w.args.files, method |-> w.args.timeout,
                     raw_response |-> FALSE, headers |-> None, kwargs |-> <<>>],
                    answer)
    IN  IF res.outcome.kind = "return"
        THEN [w EXCEPT !.pc = "return_handler", !.sent = res.sent,
                       !.answer = IF res.sent = NoRequest THEN None ELSE answer,
                       !.ret = res.outcome.value]
        ELSE [w EXCEPT !.pc = "except", !.sent = res.sent,
                       !.answer = IF res.sent = NoRequest THEN None ELSE answer,
                       !.exc = res.outcome.exc]

\* Lines 243-247: the except clause.
helper_except(w) ==
    IF w.args.exception_handler
    THEN [w EXCEPT !.pc = "return_handler",
                   !.delivered = Append(@, [to |-> "exception_handler", arg |-> w.exc])]
    ELSE [w EXCEPT !.pc = "done", !.ended = Raises(w.exc)]

\* The statement after the try statement, had ret been bound to None before
\* the try statement.
helper_return_bound(w) ==
    IF w.args.return_handler
    THEN [w EXCEPT !.pc = "done", !.ended = Returns(None),
                   !.delivered = Append(@, [to |-> "return_handler",
                                            arg |-> IF w.ret = Unbound THEN None
                                                    ELSE w.ret])]
    ELSE [w EXCEPT !.pc = "done", !.ended = Returns(None)]

\* Lines 248-249: the statement after the try statement.  Reading ret when
\* the call raised finds the local variable unbound.
helper_return(w) ==
    IF w.args.return_handler
    THEN IF w.ret = Unbound
         THEN [w EXCEPT !.pc = "done", !.ended = Raises(Error("UnboundLocalError"))]
         ELSE [w EXCEPT !.pc = "done", !.ended = Returns(None),
                        !.delivered = Append(@, [to |-> "return_handler", arg |-> w.ret])]
    ELSE [w EXCEPT !.pc = "done", !.ended = Returns(None)]

-----------------------------------------------------------------------------
(* Inputs *)

MaxThreads == 2
Threads == 1..MaxThreads

TxtCallName == <<"w">>
TxtJobName == <<"j", "r">>
TxtFileName == <<"o">>
TxtOldFileName == <<"e">>
TxtOld == <<"o", "l", "d">>
TxtGone == <<"g", "o", "n", "e">>
TxtPadded == <<" ">> \o TxtNotFound \o <<"\n">>
TxtJsonObject == <<"{", "}">>
JsonLiteral(s) == <<"\"">> \o s \o <<"\"">>

ParamsA == Dict([a |-> PyInt(1)])
FilesF == Dict([f |-> Str(<<"x">>)])

Response(status, headers, text) ==
    [kind |-> "response", status_code |-> status, headers |-> headers, text |-> text]

Statuses == {200, 400, 404, 500, 503}
PlainHeaders == [k \in {"Content-Type"} |-> "text/plain"]
JsonHeaders == [k \in {"Content-Type"} |-> JsonType]
NoHeaders == <<>>

\* The responses check_status_error is tried on.
Responses ==
    { Response(st, h, b) :
        st \in Statuses, h \in {PlainHeaders, JsonHeaders},
        b \in {TxtNotFound, TxtPadded, TxtInternalServerError, TxtGone,
               JsonLiteral(TxtNotFound), TxtJsonObject} }

\* What a request of call or file may meet.
Answers ==
    { Response(200, JsonHeaders, JsonLiteral(TxtGone)),
      Response(200, PlainHeaders, TxtGone),
      Response(404, PlainHeaders, TxtNotFound),
      Response(400, JsonHeaders, TxtJsonObject),
      Response(503, NoHeaders, TxtPadded),
      TransportFailure }

\* What the request of a thread of async_call may meet.
AsyncAnswers ==
    { Response(200, JsonHeaders, JsonLiteral(TxtGone)),
      Response(404, PlainHeaders, TxtNotFound) }

CoreAnswers == {Response(200, PlainHeaders, TxtGone), TransportFailure}

BaseCall ==
    [call |-> Str(TxtCallName), params |-> ParamsA, get_params |-> None,
     method |-> None, raw_response |-> FALSE, headers |-> None, kwargs |-> <<>>]

Methods ==
    { None, Str(<<>>), Str(TxtPost), Str(TxtGet), Str(<<"G", "E", "T">>),
      Str(<<"P", "o", "s", "t">>), Str(TxtPut), Str(TxtDelete),
      Str(<<"P", "A", "T", "C", "H">>), Str(TxtPatch), Str(TxtHead),
      Str(<<"H", "e", "a", "D">>), Str(<<"f", "e", "t", "c", "h">>),
      Str(<<"G", "E", "T", "S">>), PyInt(5) }

CallerHeaders ==
    { None, EmptyDict,
      Dict([k \in {"X-Custom"} |-> Str(<<"c">>)]),
      Dict([k \in {"X-Custom", "X-Paf-Token"} |-> Str(<<"c">>)]) }

CallArgs ==
    { [BaseCall EXCEPT !.method = m] : m \in Methods }
    \cup { [BaseCall EXCEPT !.headers = h] : h \in CallerHeaders }
    \cup { [BaseCall EXCEPT !.params = p, !.method = m, !.kwargs = kw] :
             p \in {None, EmptyDict, ParamsA, List},
             m \in {None, Str(TxtGet)},
             kw \in {<<>>, [files |-> FilesF]} }
    \cup { [BaseCall EXCEPT !.kwargs = [files |-> EmptyDict]],
           [BaseCall EXCEPT !.kwargs = [timeout |-> PyInt(5)]],
           [BaseCall EXCEPT !.kwargs = [files |-> FilesF, timeout |-> PyInt(5)],
                            !.get_params = Dict([q |-> PyInt(2)])],
           [BaseCall EXCEPT !.get_params = FilesF],
           [BaseCall EXCEPT !.raw_response = TRUE],
           [BaseCall EXCEPT !.call = PyInt(7)] }

CoreCallArgs ==
    { BaseCall, [BaseCall EXCEPT !.method = Str(<<"f", "e", "t", "c", "h">>)] }

FileArgs ==
    { [path |-> p, params |-> q, out_filename |-> o, print_progress |-> FALSE,
       timeout |-> None] :
        p \in {Str(TxtCallName), PyInt(7)},
        q \in {None, ParamsA, List},
        o \in {None, Str(TxtFileName), Str(TxtOldFileName)} }

CoreFileArgs ==
    { [path |-> Str(TxtCallName), params |-> None, out_filename |-> o,
       print_progress |-> FALSE, timeout |-> None] :
        o \in {None, Str(TxtOldFileName)} }

WsArgs ==
    { [path |-> p, params |-> q, timeout |-> None, headers |-> None,
       kwargs |-> <<>>] :
        p \in {Str(TxtCallName)},
        q \in {None, List, Dict([k \in {<<"a", " ", "b">>} |-> <<"1", " ">>])} }

BaseAsync ==
    [call |-> Str(TxtCallName), params |-> ParamsA, files |-> None,
     timeout |-> None, return_handler |-> TRUE, exception_handler |-> TRUE]

AsyncArgs ==
    { [BaseAsync EXCEPT !.files = f, !.timeout = t] :
        f \in {None, FilesF}, t \in {None, PyInt(5)} }
    \cup { [BaseAsync EXCEPT !.return_handler = rh, !.exception_handler = eh] :
             rh \in BOOLEAN, eh \in BOOLEAN }

CoreAsyncArgs == {BaseAsync}

-----------------------------------------------------------------------------
(* The state machine *)

NoOperation == [op |-> "none"]

Init ==
    /\ \E a \in InitArgs, env \in Envs :
          /\ ApiClientInit(a, env).kind = "return"
          /\ config = ApiClientInit(a, env).value
    /\ last = NoOperation
    /\ fs = [n \in {TxtFileName, TxtOldFileName} |->
                IF n = TxtOldFileName THEN Present(TxtOld) ELSE Absent]
    /\ workers = [t \in Threads |-> [pc |-> "idle"]]

\* A direct use of the public method check_status_error.
CheckStatus(R, N) ==
    \E r \in R, n \in N :
        /\ last' = [op |-> "check_status_error", args |-> [r |-> r, call |-> n],
                    outcome |-> check_status_error(r, n)]
        /\ UNCHANGED <<config, fs, workers>>

Call(A, R) ==
    \E a \in A, answer \in R :
        LET res == call(config, a, answer)
        IN  /\ last' = [op |-> "call", args |-> a, sent |-> res.sent,
                        answer |-> IF res.sent = NoRequest THEN None ELSE answer,
                        headers |-> res.headers, outcome |-> res.outcome]
            /\ UNCHANGED <<config, fs, workers>>

File(A, R) ==
    \E a \in A, answer \in R :
        LET res == file(config, a, answer, fs)
        IN  /\ last' = [op |-> "file", args |-> a, sent |-> res.sent,
                        answer |-> IF res.sent = NoRequest THEN None ELSE answer,
                        before |-> fs, outcome |-> res.outcome]
            /\ fs' = res.fs
            /\ UNCHANGED <<config, workers>>

\* A ws() that keeps the rewritten URL in the client.
Ws_rewriting(A, R) ==
    \E a \in A, answer \in R :
        LET res == ws(config, a, answer)
        IN  /\ last' = [op |-> "ws", args |-> a, sent |-> res.sent,
                        answer |-> IF res.sent = NoRequest THEN None ELSE answer,
                        outcome |-> res.outcome]
            /\ config' = [config EXCEPT !.url =
                              Str(Replace(Replace(@.v, TxtHttps, TxtWss), TxtHttp, TxtWs))]
            /\ UNCHANGED <<fs, workers>>

Ws(A, R) ==
    \E a \in A, answer \in R :
        LET res == ws(config, a, answer)
        IN  /\ last' = [op |-> "ws", args |-> a, sent |-> res.sent,
                        answer |-> IF res.sent = NoRequest THEN None ELSE answer,
                        outcome |-> res.outcome]
            /\ UNCHANGED <<config, fs, workers>>

\* async_call starts a new thread on every use; the model has MaxThreads.
AsyncCall(A) ==
    \E a \in A, t \in Threads :
        /\ workers[t].pc = "idle"
        /\ \A u \in Threads : u < t => workers[u].pc # "idle"
        /\ workers' = [workers EXCEPT ![t] = async_call(a)]
        /\ UNCHANGED <<config, last, fs>>

WorkerCall(R) ==
    \E t \in Threads, answer \in R :
        /\ workers[t].pc = "call"
        /\ workers' = [workers EXCEPT ![t] = helper_call(config, workers[t], answer)]
        /\ UNCHANGED <<config, last, fs>>

WorkerExcept ==
    \E t \in Threads :
        /\ workers[t].pc = "except"
        /\ workers' = [workers EXCEPT ![t] = helper_except(workers[t])]
        /\ UNCHANGED <<config, last, fs>>

WorkerReturn ==
    \E t \in Threads :
        /\ workers[t].pc = "return_handler"
        /\ workers' = [workers EXCEPT ![t] = helper_return(workers[t])]
        /\ UNCHANGED <<config, last, fs>>

WsAnswers == {Response(200, NoHeaders, <<>>), TransportFailure}

\* Uses of check_status_error alone.
NextStatus == CheckStatus(Responses, {TxtCallName, TxtJobName})

SpecStatus == Init /\ [][NextStatus]_vars

\* Uses of call alone.
NextCall == Call(CallArgs, Answers)

SpecCall == Init /\ [][NextCall]_vars

\* Uses of file alone.
NextFile == File(FileArgs, Answers)

SpecFile == Init /\ [][NextFile]_vars

\* The asynchronous calls and their threads.
NextAsync ==
    \/ AsyncCall(AsyncArgs)
    \/ WorkerCall(AsyncAnswers)
    \/ WorkerExcept
    \/ WorkerReturn

SpecAsync == Init /\ [][NextAsync]_vars

\* Every operation of the client, interleaved with the threads.
Next ==
    \/ CheckStatus({Response(404, PlainHeaders, TxtNotFound)}, {TxtCallName})
    \/ Call(CoreCallArgs, CoreAnswers)
    \/ File(CoreFileArgs, CoreAnswers)
    \/ Ws(WsArgs, WsAnswers)
    \/ AsyncCall(CoreAsyncArgs)
    \/ WorkerCall(CoreAnswers)
    \/ WorkerExcept
    \/ WorkerReturn

Spec == Init /\ [][Next]_vars

-----------------------------------------------------------------------------
(* Properties *)

Raised(outcome, type) == outcome.kind = "raise" /\ outcome.exc.type = type

\* The message body of section 4.3: the decoded JSON string under the JSON
\* content type, the body text otherwise.
C1_Body(r) ==
    IF IsJson(r) /\ JsonLoads(r.text).kind = "return"
                 /\ JsonLoads(r.text).value.t = "str"
    THEN JsonLoads(r.text).value.v
    ELSE r.text

C1_Message(r, name) ==
    LET msg == Strip(C1_Body(r))
    IN  IF r.status_code = 404 /\ msg = TxtNotFound
        THEN TxtCallQuote \o name \o TxtWasNotFound
        ELSE IF r.status_code >= 500 /\ msg = TxtInternalServerError
        THEN TxtCallQuote \o name \o TxtFailedWithServerError
        ELSE msg

\* C1: for every response with a status other than 200 and every call name,
\* check_status_error raises an ApiException with the response's status and
\* the trimmed body as message, replaced by the call-specific message for 404
\* "Not Found" and for 5xx "Internal Server Error"; for status 200 it raises
\* nothing.
C1_ClassifiesEveryResponse ==
    last.op = "check_status_error" =>
        LET r == last.args.r
        IN  IF r.status_code = 200
            THEN last.outcome = Returns(None)
            ELSE /\ Raised(last.outcome, "ApiException")
                 /\ last.outcome.exc.status_code = r.status_code
                 /\ last.outcome.exc.msg = C1_Message(r, last.args.call)

PafHeaders == {"X-Paf-Project", "X-Paf-Token"}

\* C2: the headers of the request call() sends are the caller's headers
\* merged with the header builder's: every caller header that is not
\* X-Paf-Project or X-Paf-Token is on the request with the caller's value, and
\* the builder's value is sent for every key the builder gives.
C2_HeadersMerged ==
    (last.op = "call" /\ last.sent # NoRequest) =>
        LET hdr == last.sent[1].kwargs.headers
            caller == IF Truthy(last.args.headers) THEN last.args.headers.v ELSE <<>>
            built == _get_request_headers(config)
        IN  /\ \A k \in DOMAIN caller \ PafHeaders :
                  k \in DOMAIN hdr /\ hdr[k] = caller[k]
            /\ \A k \in DOMAIN built : k \in DOMAIN hdr /\ hdr[k] = built[k]

\* C3: file() without out_filename fails with a validation error and sends no
\* HTTP request.
C3_NoRequestWithoutFilename ==
    (last.op = "file" /\ last.args.out_filename = None
        /\ last.args.path.t = "str" /\ last.args.params.t \in {"none", "dict"}) =>
        /\ last.sent = NoRequest
        /\ Raised(last.outcome, "ValueError")

\* The keyword arguments the transport acts on: an argument given as None is
\* an argument not given.
Given(kwargs) ==
    [k \in {x \in DOMAIN kwargs : kwargs[x] # None} |-> kwargs[k]]

\* The call async_call stands for: call(name, params, files=files,
\* timeout=timeout), with the default method.
C4_Call(w, answer) ==
    call(config,
         [call |-> w.args.call, params |-> w.args.params, get_params |-> None,
          method |-> None, raw_response |-> FALSE, headers |-> None,
          kwargs |-> [files |-> w.args.files, timeout |-> w.args.timeout]],
         answer)

\* C4: the thread of async_call(name, params, files, timeout, ...) makes the
\* request call(name, params, files=files, timeout=timeout) makes, and when
\* the server answers 200 and a return_handler is given, the thread ends
\* having invoked return_handler with the decoded result.
C4_SameCallAsCall ==
    \A t \in Threads :
        LET w == workers[t]
        IN  w.pc \notin {"idle", "call"} =>
            LET want == C4_Call(w, TransportFailure).sent
            IN  /\ Len(w.sent) = Len(want)
                /\ \A i \in DOMAIN want :
                      /\ w.sent[i].function = want[i].function
                      /\ Given(w.sent[i].kwargs) = Given(want[i].kwargs)
                /\ (w.pc = "done" /\ w.args.return_handler /\ w.answer # None
                        /\ w.answer.status_code = 200) =>
                      w.delivered =
                          <<[to |-> "return_handler",
                             arg |-> C4_Call(w, w.answer).outcome.value]>>

CallRaised(w) == w.pc \notin {"idle", "call"} /\ w.exc # None
CallReturned(w) == w.pc \notin {"idle", "call"} /\ w.ret # Unbound

\* C5: over the life of a thread of async_call the handlers get at most one
\* delivery: return_handler only if the call returned, with its result;
\* exception_handler only if the call raised, with the error; and nothing at
\* all when the call raised and no exception_handler was given.
C5_AtMostOneDelivery ==
    \A t \in Threads :
        LET w == workers[t]
        IN  w.pc # "idle" =>
            /\ Len(w.delivered) <= 1
            /\ \A i \in DOMAIN w.delivered :
                  /\ w.delivered[i].to = "return_handler" =>
                        /\ w.args.return_handler
                        /\ CallReturned(w) /\ ~CallRaised(w)
                        /\ w.delivered[i].arg = w.ret
                  /\ w.delivered[i].to = "exception_handler" =>
                        /\ w.args.exception_handler
                        /\ CallRaised(w) /\ ~CallReturned(w)
                        /\ w.delivered[i].arg = w.exc
            /\ (CallRaised(w) /\ ~w.args.exception_handler) => w.delivered = <<>>

\* A thread ended after a call that raised, both handlers given: the error
\* went to exception_handler and nothing went to return_handler.
C5_Witness ==
    \E t \in Threads :
        LET w == workers[t]
        IN  /\ w.pc = "done"
            /\ w.args.return_handler /\ w.args.exception_handler
            /\ CallRaised(w)
            /\ w.delivered = <<[to |-> "exception_handler", arg |-> w.exc]>>

HasFiles(a) == "files" \in DOMAIN a.kwargs /\ Truthy(a.kwargs["files"])

\* C6 as stated: with no files entry, call() hands a JSON body to the
\* transport only when params is not empty, and the body then equals params
\* (get with no params: no JSON body; post with {"a": 1}: the body {"a": 1}).
C6_JsonOnlyForParams ==
    (last.op = "call" /\ last.sent # NoRequest /\ ~HasFiles(last.args)) =>
        LET kwargs == last.sent[1].kwargs
        IN  /\ "json" \in DOMAIN kwargs <=> Truthy(last.args.params)
            /\ "json" \in DOMAIN kwargs => kwargs["json"] = last.args.params

\* C6 as amended: with no files entry, or an empty one, call() always hands a
\* JSON body to the transport, and never form data: the body equals params
\* when params is not empty and is the empty object {} when params is absent
\* or empty.
C6_JsonAlways ==
    (last.op = "call" /\ last.sent # NoRequest /\ ~HasFiles(last.args)) =>
        LET kwargs == last.sent[1].kwargs
        IN  /\ "json" \in DOMAIN kwargs
            /\ "data" \notin DOMAIN kwargs
            /\ kwargs["json"] = IF last.args.params \in {None, EmptyDict}
                                THEN EmptyDict
                                ELSE last.args.params

\* call(name, method="get") without params has sent the JSON body {}.
C6_Witness ==
    /\ last.op = "call"
    /\ last.args.method = Str(TxtGet)
    /\ last.args.params = None
    /\ ~HasFiles(last.args)
    /\ last.sent # NoRequest
    /\ last.sent[1].function = "requests.get"
    /\ last.sent[1].kwargs["json"] = EmptyDict

\* The method strings and the request function each stands for, case ignored.
C7_Supported ==
    { <<TxtPost, "requests.post">>, <<<<"P", "o", "s", "t">>, "requests.post">>,
      <<TxtGet, "requests.get">>, <<<<"G", "E", "T">>, "requests.get">>,
      <<TxtPut, "requests.put">>, <<TxtDelete, "requests.delete">>,
      <<TxtPatch, "requests.patch">>, <<<<"P", "A", "T", "C", "H">>, "requests.patch">>,
      <<TxtHead, "requests.head">>, <<<<"H", "e", "a", "D">>, "requests.head">> }

C7_Dispatch(methods) ==
    (last.op = "call" /\ last.args.method \in methods) =>
        LET m == last.args.method.v
        IN  IF \E p \in C7_Supported : p[1] = m
            THEN /\ ~Raised(last.outcome, "Exception")
                 /\ (last.args.call.t = "str" /\ last.args.params.t \in {"none", "dict"}) =>
                       /\ last.sent # NoRequest
                       /\ \E p \in C7_Supported :
                             p[1] = m /\ last.sent[1].function = p[2]
            ELSE /\ last.sent = NoRequest
                 /\ Raised(last.outcome, "Exception")

\* C7 as stated: call() with a method string that, case ignored, is none of
\* post, get, put, delete, patch, head fails with the unknown-method error and
\* sends no request; every case variant of the six is dispatched with its verb.
C7_UnknownMethodFails ==
    C7_Dispatch({m \in Methods : m.t = "str"})

\* C7 as amended: the same, for a method string that is not empty (the empty
\* string is taken as no method and the call is a post).
C7_UnknownNonEmptyMethodFails ==
    C7_Dispatch({m \in Methods : m.t = "str" /\ m.v # <<>>})

\* call(name, params, method="GET") has been dispatched as a get.
C7_Witness ==
    /\ last.op = "call"
    /\ last.args.method = Str(<<"G", "E", "T">>)
    /\ last.sent # NoRequest
    /\ last.sent[1].function = "requests.get"

\* C8: when the server answers file() with a status other than 200, the
\* ApiException of check_status_error reaches the caller and the output file
\* is neither created nor written: the file system is as before the call.
C8_ErrorWithoutFile ==
    (last.op = "file" /\ last.answer # None /\ Answered(last.answer)
        /\ last.answer.status_code # 200) =>
        /\ Raised(last.outcome, "ApiException")
        /\ last.outcome.exc.status_code = last.answer.status_code
        /\ fs = last.before

\* C9: no operation of the client and no step of a thread of async_call
\* changes the client's url, token, project or trace.
C9_ConfigUnchanged == [][config' = config]_vars

\* A call, a file download or a websocket connection has been made while one
\* thread of async_call has ended and another runs.
C9_Witness ==
    /\ last.op \in {"call", "file", "ws"}
    /\ last.sent # NoRequest
    /\ \E t, u \in Threads :
          /\ workers[t].pc = "done"
          /\ workers[u].pc \in {"except", "return_handler"}

\* C10: in the thread of async_call, when the call raises and an
\* exception_handler is given, the thread invokes it with the error and ends
\* without a further error, with or without a return_handler; the error ends
\* the thread only when no exception_handler is given.
C10_HandledErrorEndsThread ==
    \A t \in Threads :
        LET w == workers[t]
        IN  (w.pc = "done" /\ CallRaised(w)) =>
            IF w.args.exception_handler
            THEN /\ w.ended = Returns(None)
                 /\ \E i \in DOMAIN w.delivered :
                       w.delivered[i] = [to |-> "exception_handler", arg |-> w.exc]
            ELSE w.ended = Raises(w.exc)

=============================================================================
